---- MODULE Spec2Model ----
(***************************************************************************)
(* GPS Quest: the quest progression controller (NavigationDataComponent),  *)
(* the waypoints it tracks (Place / GeoLocationPlace) and the per-frame    *)
(* callbacks that drive them.                                              *)
(*                                                                         *)
(* A waypoint is a number 1..NumPlaces.  The user's position is kept as    *)
(* the vector of distances (metres) from the user to every waypoint, or    *)
(* NoFix before the first GPS reading.  Every event the controller emits   *)
(* is appended to a log as <<event, place, source line of the invoke>>;    *)
(* the log holds the events of the last operation, and the out-of-order    *)
(* corrections its sweep made.                                             *)
(***************************************************************************)
EXTENDS Integers, Sequences, FiniteSets, TLC

VARIABLES
    places,                     \* NavigationDataComponent._places
    visited,                    \* Place._visited of every waypoint object
    status,                     \* NavigationDataComponent._status
    selectedPlace,              \* NavigationDataComponent.selectedPlace
    placesVisited,              \* NavigationDataComponent.placesVisited (Map)
    placesAt,                   \* NavigationDataComponent.placesAt (Map)
    emittedAllVisited,          \* NavigationDataComponent.emittedAllVisited
    hasArrivedAtSelectedPlace,  \* NavigationDataComponent.hasArrivedAtSelectedPlace
    gps,                        \* the user's position: NoFix or distances to the waypoints
    emitted,                    \* events invoked by the last operation, in order
    lastOp,                     \* the last operation
    everConfirmed,              \* history: waypoints the sweep has confirmed at some time
    allVisitedCount,            \* history: onAllPlacesVisited emitted "never", "once" or "again"
    arrowSubscribed,            \* ARNavigation.onStart has run: the arrow listens
    arrowSelectedPlace,         \* ARNavigation.selectedPlace
    arrowEnabled,               \* ARNavigation.arrowRenderMeshVisual.sceneObject.enabled
    arrowLog,                   \* onDestinationReached deliveries of the last operation
    worldSubscribed,            \* WorldController.onAwake has run: the markers listen
    spawnedPlaces,              \* WorldController.spawnedPlaces (its keys)
    lastVisitedIndex,           \* WorldController.lastVisitedIndex
    placeStatusMap,             \* WorldController.placeStatusMap, by the instance's place
    lastChain,                  \* history: the chain last triggered on every marker
    tweenLog,                   \* triggerTweenChain calls of the last operation
    geoLocalizationAvailable,   \* userPosition.status === GeoLocalizationAvailable
    locationBearing,            \* what calculateBearing gives for the user and the waypoint
    bearing,                    \* the result of the last getBearing call
    arrivedLog,                 \* the list and the flags at every onArrivedAtPlace invoke
                                \* of the last operation
    allVisitedLog               \* the list and the flags at every onAllPlacesVisited
                                \* invoke of the last operation

vars == <<places, visited, status, selectedPlace, placesVisited, placesAt,
          emittedAllVisited, hasArrivedAtSelectedPlace, gps, emitted, lastOp,
          everConfirmed, allVisitedCount, arrowSubscribed, arrowSelectedPlace,
          arrowEnabled, arrowLog, worldSubscribed, spawnedPlaces, lastVisitedIndex,
          placeStatusMap, lastChain, tweenLog, geoLocalizationAvailable,
          locationBearing, bearing, arrivedLog, allVisitedLog>>

---------------------------------------------------------------------------
(* Bounds and inputs *)

NumPlaces == 2

AllPlaces == 1..NumPlaces

Null == 0

Undefined == -1

NoFix == <<>>

\* distances (metres) a GPS reading can put between the user and a waypoint
DistValues == {3, 10, 15}

\* GeoPlaceInput.distanceToActivate as passed to the GeoLocationPlace constructor
distanceToVisit(p) == IF p % 3 = 1 THEN 10 ELSE IF p % 3 = 2 THEN 20 ELSE 5

DefaultDistanceToActivate == 10

GpsFixes == [AllPlaces -> DistValues]

\* enum NavigationStatus
LocationNotSelected == "LocationNotSelected"
Initializing == "Initializing"
InProgress == "InProgress"
Succeeded == "Succeeded"

\* the events of the controller
NavigationStarted == "onNavigationStarted"
ArrivedAtPlace == "onArrivedAtPlace"
PlacesUpdated == "onPlacesUpdated"
AllPlacesVisited == "onAllPlacesVisited"

\* not an event: the log's record of the sweep forcing a visited flag back to false
VisitedReverted == "visitedReverted"

\* not an event: the log's record of an operation ending in a thrown Error
ErrorThrown == "Error"

---------------------------------------------------------------------------
(* JavaScript helpers *)

isNull(x) == x = Null \/ x = Undefined

\* Array.prototype.indexOf: 0-based, -1 when absent
indexOf(seq, x) ==
    IF \E i \in 1..Len(seq) : seq[i] = x
    THEN (CHOOSE i \in 1..Len(seq) : seq[i] = x /\ \A j \in 1..(i - 1) : seq[j] # x) - 1
    ELSE -1

\* seq[i] with a 0-based index: undefined out of range
at(seq, i) == IF i >= 0 /\ i < Len(seq) THEN seq[i + 1] ELSE Undefined

includes(seq, x) == \E i \in 1..Len(seq) : seq[i] = x

\* Array.prototype.filter((m) => m !== x)
RECURSIVE filterOut(_, _)
filterOut(seq, x) ==
    IF seq = <<>> THEN <<>>
    ELSE IF Head(seq) = x THEN filterOut(Tail(seq), x)
    ELSE <<Head(seq)>> \o filterOut(Tail(seq), x)

mapSet(m, k, v) == [x \in (DOMAIN m) \cup {k} |-> IF x = k THEN v ELSE m[x]]

mapDelete(m, k) == [x \in (DOMAIN m) \ {k} |-> m[x]]

\* b !== m.get(k) for a boolean b: m.get(k) is undefined when k is absent
differsFromGet(b, m, k) == IF k \in DOMAIN m THEN b # m[k] ELSE TRUE

---------------------------------------------------------------------------
(* The user's position *)

\* UserPosition.getDistanceTo(place): null until the first fix
getDistanceTo(g, p) == IF g = NoFix THEN Null ELSE g[p]

\* GeoLocationPlace.getPhysicalDistance
getPhysicalDistance(g, p) == IF g = NoFix THEN Null ELSE g[p]

\* checkVisited with <= for <: a user exactly on the radius counts as arrived
checkVisitedInclusive(g, p) ==
    LET distance == getPhysicalDistance(g, p)
    IN  ~isNull(distance) /\ distance <= distanceToVisit(p)

\* GeoLocationPlace.checkVisited
checkVisited(g, p) ==
    LET distance == getPhysicalDistance(g, p)
    IN  ~isNull(distance) /\ distance < distanceToVisit(p)

\* the null of the return type vec3 | null; a position is <<horizontal offset from
\* the user along the bearing, y offset from the user>> in world units
NoPosition == <<>>

\* GeoLocationPlace.calculateRelativePosition: distance * 100 with a null distance
\* is 0 in JavaScript; y is set to the user's own y; projectedPosition is returned
\* on every path
calculateRelativePosition(g, p, yOffset) ==
    LET distance == getPhysicalDistance(g, p)
    IN  <<distance * 100, 0>>

\* GeoLocationPlace.getRelativePosition
getRelativePosition(g, p) == calculateRelativePosition(g, p, 0)

\* the null of getBearing's return type number | null; a bearing is <<degrees>>
NoBearing == <<>>

\* NavigationUtils.normalizeAngle: the angle in [0, 360) that differs from deg by a
\* multiple of 360
normalizeAngle(deg) == deg % 360

\* getBearing that returns calculateBearing's value as it is
getBearingWithoutNormalize(available, raw) ==
    IF ~available THEN NoBearing ELSE <<raw>>

\* GeoLocationPlace.getBearing, with raw the value of calculateBearing(userGeoPosition,
\* this.getGeoPosition()) in whole degrees
getBearing(available, raw) ==
    IF ~available THEN NoBearing ELSE <<normalizeAngle(raw)>>

---------------------------------------------------------------------------
(* The listeners of the controller's events: the arrow (ARNavigation) and   *)
(* the waypoint markers (WorldController).  They run inside invoke, on the  *)
(* controller's state at the moment of the invoke.                          *)

\* ARNavigation.blockActivation: false, and nothing in the repository sets it
blockActivation == FALSE

\* ARNavigation.setVisible
setVisible(s, visible) ==
    IF blockActivation THEN s ELSE [s EXCEPT !.arrowEnabled = visible]

\* ARNavigation.onPlaceSelected; reset() enables the arrow's scene object
onPlaceSelected(s, place) ==
    LET s1 == [s EXCEPT !.arrowEnabled = TRUE, !.arrowSelectedPlace = place]
    IN  setVisible(s1, place # Null)

\* the arrow's scan taking the place at index i whether it is visited or not
arrowNextUnvisitedIgnoresVisited(s, i) ==
    IF i < Len(s.places) THEN at(s.places, i) ELSE Null

\* ARNavigation.onDestinationReached, lines 236-241: the first unvisited place at
\* index i or later
RECURSIVE arrowNextUnvisited(_, _)
arrowNextUnvisited(s, i) ==
    IF i < Len(s.places)
    THEN IF ~s.visited[at(s.places, i)] THEN at(s.places, i)
         ELSE arrowNextUnvisited(s, i + 1)
    ELSE Null

\* ARNavigation.onDestinationReached; arrowLog keeps, for every delivery, the target
\* before, the list and the flags the handler saw, and the target and visibility after
onDestinationReached(s) ==
    LET currentIdx == indexOf(s.places, s.arrowSelectedPlace)
        nextPlace == arrowNextUnvisited(s, currentIdx + 1)
        s1 == IF nextPlace # Null THEN onPlaceSelected(s, nextPlace)
              ELSE setVisible(s, FALSE)
    IN  [s1 EXCEPT !.arrowLog = Append(@, [before |-> s.arrowSelectedPlace,
                                           places |-> s.places,
                                           visited |-> s.visited,
                                           after |-> s1.arrowSelectedPlace,
                                           enabled |-> s1.arrowEnabled])]

\* ARNavigation.onStart: subscribe, show the arrow, target the first place if any
onStart(s) ==
    LET s1 == setVisible([s EXCEPT !.arrowSubscribed = TRUE], TRUE)
    IN  IF Len(s1.places) > 0 THEN onPlaceSelected(s1, at(s1.places, 0)) ELSE s1

\* the tween chains of a marker
onSpawn == "onSpawn"
onVisited == "onVisited"
onPassed == "onPassed"

\* Place.name of a waypoint, the status of a marker that is not yet next
PlaceName == "name"

\* Map.get of a map kept as a function: undefined when k is absent
mapGet(m, k) == IF k \in DOMAIN m THEN m[k] ELSE "undefined"

\* WorldController.triggerTweenChain on the marker of place p (a prefab with a
\* TweenController that has the three chains); tweenLog keeps every trigger with the
\* chain triggered on the same marker before it
triggerTweenChain(s, p, chainName) ==
    [s EXCEPT !.tweenLog = Append(@, <<p, chainName, mapGet(s.lastChain, p)>>),
              !.lastChain = mapSet(@, p, chainName)]

\* this.spawnedPlaces.get(p), then triggerTweenChain if there is an instance
triggerIfSpawned(s, p, chainName) ==
    IF p \in s.spawnedPlaces THEN triggerTweenChain(s, p, chainName) ELSE s

\* WorldController.onArrivedAtPlace
onArrivedAtPlace(s, place) ==
    LET currentIndex == indexOf(s.places, place)
        s1 == IF s.lastVisitedIndex >= 0 /\ s.lastVisitedIndex < Len(s.places)
              THEN triggerIfSpawned(s, at(s.places, s.lastVisitedIndex), onPassed)
              ELSE s
        s2 == IF currentIndex + 1 < Len(s.places)
              THEN triggerIfSpawned(
                       triggerIfSpawned(s1, at(s.places, currentIndex + 1), onSpawn),
                       place, onVisited)
              ELSE triggerIfSpawned(s1, place, onPassed)
    IN  [s2 EXCEPT !.lastVisitedIndex = currentIndex]

\* WorldController.updateWaypointVisibility, lines 802-840: the body of forEach for
\* the place at index
visibilityStep(s, index) ==
    LET place == at(s.places, index)
        st == IF index < s.lastVisitedIndex THEN onPassed
              ELSE IF index = s.lastVisitedIndex THEN onVisited
              ELSE IF index = s.lastVisitedIndex + 1 THEN onSpawn
              ELSE PlaceName
        prevStatus == mapGet(s.placeStatusMap, place)
    IN  IF place \notin s.spawnedPlaces THEN s
        ELSE IF st # prevStatus
        THEN LET s1 == IF st \in {onPassed, onVisited, onSpawn}
                       THEN triggerTweenChain(s, place, st) ELSE s
             IN  [s1 EXCEPT !.placeStatusMap = mapSet(@, place, st)]
        ELSE s

\* WorldController.updateWaypointVisibility, from index i
RECURSIVE updateWaypointVisibility(_, _)
updateWaypointVisibility(s, i) ==
    IF i < Len(s.places) THEN updateWaypointVisibility(visibilityStep(s, i), i + 1)
    ELSE s

\* WorldController.onNavigationStarted
onNavigationStarted(s, place) == updateWaypointVisibility(s, 0)

\* WorldController.spawnAllPlaces, with a place prefab set
spawnAllPlaces(s) ==
    [s EXCEPT !.spawnedPlaces = @ \cup {s.places[i] : i \in 1..Len(s.places)}]

\* WorldController.autoSpawn, as the scene sets it (the default)
autoSpawn == TRUE

\* WorldController.onPlacesUpdated
onPlacesUpdated(s) == IF autoSpawn THEN spawnAllPlaces(s) ELSE s

\* Event.invoke of the event ev with argument p: the listeners in the order they
\* subscribed (WorldController in onAwake, ARNavigation in onStart)
deliver(s, ev, p) ==
    LET w == IF ~s.worldSubscribed THEN s
             ELSE IF ev = NavigationStarted THEN onNavigationStarted(s, p)
             ELSE IF ev = ArrivedAtPlace THEN onArrivedAtPlace(s, p)
             ELSE IF ev = PlacesUpdated THEN onPlacesUpdated(s)
             ELSE s
    IN  IF ~w.arrowSubscribed THEN w
        ELSE IF ev = NavigationStarted THEN onPlaceSelected(w, p)
        ELSE IF ev = ArrivedAtPlace THEN onDestinationReached(w)
        ELSE w

---------------------------------------------------------------------------
(* The controller, as functions of its state s (a record of its fields)    *)

\* Event.invoke at the given source line: the log entry, then the listeners
invoke(s, ev, p, line) ==
    LET s1 == [s EXCEPT !.emitted = Append(@, <<ev, p, line>>),
                        !.allVisitedCount =
                            IF ev # AllPlacesVisited THEN @
                            ELSE IF @ = "never" THEN "once" ELSE "again",
                        !.arrivedLog =
                            IF ev # ArrivedAtPlace THEN @
                            ELSE Append(@, [place |-> p, places |-> s.places,
                                            visited |-> s.visited]),
                        !.allVisitedLog =
                            IF ev # AllPlacesVisited THEN @
                            ELSE Append(@, [places |-> s.places, visited |-> s.visited])]
    IN  deliver(s1, ev, p)

\* (this.selectedPlace as any).distanceToActivate ?? 10: a GeoLocationPlace keeps its
\* radius in distanceToVisit and has no distanceToActivate property
distanceToActivateOf(p) == DefaultDistanceToActivate

\* addPlace without the duplicate check
addPlaceWithoutDuplicateCheck(s, place) ==
    IF isNull(place) THEN invoke(s, ErrorThrown, Null, 270)
    ELSE LET s1 == [s EXCEPT !.places = Append(@, place),
                             !.placesVisited = mapSet(@, place, FALSE),
                             !.placesAt = mapSet(@, place, FALSE)]
             s2 == invoke(s1, PlacesUpdated, Null, 277)
         IN  [s2 EXCEPT !.emittedAllVisited = FALSE]

\* addPlace that tests for null only after it has told its listeners and re-armed
\* the completion latch
addPlaceNullCheckLast(s, place) ==
    LET s1 == IF ~includes(s.places, place)
              THEN [invoke(s, PlacesUpdated, Null, 277) EXCEPT !.emittedAllVisited = FALSE]
              ELSE s
    IN  IF isNull(place) THEN invoke(s1, ErrorThrown, Null, 270)
        ELSE IF ~includes(s.places, place)
        THEN [s1 EXCEPT !.places = Append(@, place),
                        !.placesVisited = mapSet(@, place, FALSE),
                        !.placesAt = mapSet(@, place, FALSE)]
        ELSE s1

\* addPlace without the null check: null is pushed like any place
addPlaceWithoutNullCheck(s, place) ==
    IF ~includes(s.places, place)
    THEN LET s1 == [s EXCEPT !.places = Append(@, place),
                             !.placesVisited = mapSet(@, place, FALSE),
                             !.placesAt = mapSet(@, place, FALSE)]
             s2 == invoke(s1, PlacesUpdated, Null, 277)
         IN  [s2 EXCEPT !.emittedAllVisited = FALSE]
    ELSE s

\* addPlace that leaves emittedAllVisited as it was instead of re-arming it
addPlaceWithoutRearm(s, place) ==
    IF isNull(place) THEN invoke(s, ErrorThrown, Null, 270)
    ELSE IF ~includes(s.places, place)
    THEN LET s1 == [s EXCEPT !.places = Append(@, place),
                             !.placesVisited = mapSet(@, place, FALSE),
                             !.placesAt = mapSet(@, place, FALSE)]
         IN  invoke(s1, PlacesUpdated, Null, 277)
    ELSE s

\* NavigationDataComponent.addPlace
addPlace(s, place) ==
    IF isNull(place) THEN invoke(s, ErrorThrown, Null, 270)
    ELSE IF ~includes(s.places, place)
    THEN LET s1 == [s EXCEPT !.places = Append(@, place),
                             !.placesVisited = mapSet(@, place, FALSE),
                             !.placesAt = mapSet(@, place, FALSE)]
             s2 == invoke(s1, PlacesUpdated, Null, 277)
         IN  [s2 EXCEPT !.emittedAllVisited = FALSE]
    ELSE s

\* removePlace that leaves the place's entries in placesVisited and placesAt
removePlaceKeepsBookkeeping(s, place) ==
    LET sizeBefore == Len(s.places)
        s1 == [s EXCEPT !.places = filterOut(@, place)]
    IN  IF Len(s1.places) # sizeBefore THEN invoke(s1, PlacesUpdated, Null, 294) ELSE s1

\* NavigationDataComponent.removePlace
removePlace(s, place) ==
    LET sizeBefore == Len(s.places)
        s1 == [s EXCEPT !.places = filterOut(@, place),
                        !.placesVisited = mapDelete(@, place),
                        !.placesAt = mapDelete(@, place)]
    IN  IF Len(s1.places) # sizeBefore THEN invoke(s1, PlacesUpdated, Null, 294) ELSE s1

\* the arrival check without the distance !== null test: null <= 10 is true in
\* JavaScript (null converts to 0)
arrivalCheckFiresWithoutNullTest(s, g) ==
    LET distance == getDistanceTo(g, s.selectedPlace)
        distanceToActivate == distanceToActivateOf(s.selectedPlace)
        currentIdx == indexOf(s.places, s.selectedPlace)
        prev == at(s.places, currentIdx - 1)
        prevVisited == IF prev = Undefined THEN TRUE ELSE s.visited[prev]
    IN  /\ distance <= distanceToActivate
        /\ prevVisited
        /\ ~s.visited[s.selectedPlace]

\* update(), lines 308-317: the arrival check of the selected place
arrivalCheckFires(s, g) ==
    LET distance == getDistanceTo(g, s.selectedPlace)
        distanceToActivate == distanceToActivateOf(s.selectedPlace)
        currentIdx == indexOf(s.places, s.selectedPlace)
        prev == at(s.places, currentIdx - 1)
        prevVisited == IF prev = Undefined THEN TRUE ELSE s.visited[prev]
    IN  /\ distance # Null
        /\ distance <= distanceToActivate
        /\ prevVisited
        /\ ~s.visited[s.selectedPlace]

arrivalCheck(s, g) ==
    IF arrivalCheckFires(s, g)
    THEN LET s1 == [s EXCEPT !.visited[s.selectedPlace] = TRUE]
             s2 == invoke(s1, ArrivedAtPlace, s.selectedPlace, 315)
         IN  [s2 EXCEPT !.hasArrivedAtSelectedPlace = TRUE]
    ELSE s

\* nextUnvisited that takes the place at index i whether it is visited or not
nextUnvisitedIgnoresVisited(s, i) ==
    IF i < Len(s.places) THEN at(s.places, i) ELSE Null

\* update(), lines 325-331: the first unvisited place at index i or later
RECURSIVE nextUnvisited(_, _)
nextUnvisited(s, i) ==
    IF i < Len(s.places)
    THEN IF ~s.visited[at(s.places, i)] THEN at(s.places, i) ELSE nextUnvisited(s, i + 1)
    ELSE Null

\* sweepStep with the order check lost: a visited place is confirmed whatever its
\* predecessor
sweepStepNoOrderCheck(s, i) ==
    LET p == at(s.places, i)
        atPlace == s.visited[p]
    IN  IF differsFromGet(atPlace, s.placesAt, p)
        THEN IF atPlace
             THEN LET a == invoke(s, ArrivedAtPlace, p, 352)
                  IN  [a EXCEPT !.placesVisited = mapSet(@, p, TRUE),
                                !.placesAt = mapSet(@, p, TRUE),
                                !.everConfirmed = @ \cup {p}]
             ELSE [s EXCEPT !.placesAt = mapSet(@, p, FALSE)]
        ELSE s

\* sweepStep with the correction lost: an out-of-order place keeps its flag
sweepStepNoRevert(s, i) ==
    LET p == at(s.places, i)
        atPlace == s.visited[p]
        isFirst == i = 0
        prevVisited == isFirst \/ s.visited[at(s.places, i - 1)]
    IN  IF differsFromGet(atPlace, s.placesAt, p)
        THEN IF atPlace
             THEN IF prevVisited
                  THEN LET a == invoke(s, ArrivedAtPlace, p, 352)
                       IN  [a EXCEPT !.placesVisited = mapSet(@, p, TRUE),
                                     !.placesAt = mapSet(@, p, TRUE),
                                     !.everConfirmed = @ \cup {p}]
                  ELSE s
             ELSE [s EXCEPT !.placesAt = mapSet(@, p, FALSE)]
        ELSE s

\* sweepStep with placesVisited.set(p, true) moved above the order check
sweepStepRecordsBeforeOrderCheck(s, i) ==
    LET p == at(s.places, i)
        atPlace == s.visited[p]
        isFirst == i = 0
        prevVisited == isFirst \/ s.visited[at(s.places, i - 1)]
    IN  IF differsFromGet(atPlace, s.placesAt, p)
        THEN IF atPlace
             THEN LET r == [s EXCEPT !.placesVisited = mapSet(@, p, TRUE)]
                  IN  IF prevVisited
                      THEN LET a == invoke(r, ArrivedAtPlace, p, 352)
                           IN  [a EXCEPT !.placesAt = mapSet(@, p, TRUE),
                                         !.everConfirmed = @ \cup {p}]
                      ELSE invoke([r EXCEPT !.visited[p] = FALSE], VisitedReverted, p, 357)
             ELSE [s EXCEPT !.placesAt = mapSet(@, p, FALSE)]
        ELSE s

\* sweepStep that confirms a place in placesAt only and leaves placesVisited alone
sweepStepWithoutVisitedRecord(s, i) ==
    LET p == at(s.places, i)
        atPlace == s.visited[p]
        isFirst == i = 0
        prevVisited == isFirst \/ s.visited[at(s.places, i - 1)]
    IN  IF differsFromGet(atPlace, s.placesAt, p)
        THEN IF atPlace
             THEN IF prevVisited
                  THEN LET a == invoke(s, ArrivedAtPlace, p, 352)
                       IN  [a EXCEPT !.placesAt = mapSet(@, p, TRUE),
                                     !.everConfirmed = @ \cup {p}]
                  ELSE invoke([s EXCEPT !.visited[p] = FALSE], VisitedReverted, p, 357)
             ELSE [s EXCEPT !.placesAt = mapSet(@, p, FALSE)]
        ELSE s

\* update(), lines 345-362: the body of the sweep's loop, for the place at index i
sweepStep(s, i) ==
    LET p == at(s.places, i)
        atPlace == s.visited[p]
        isFirst == i = 0
        prevVisited == isFirst \/ s.visited[at(s.places, i - 1)]
    IN  IF differsFromGet(atPlace, s.placesAt, p)
        THEN IF atPlace
             THEN IF prevVisited
                  THEN LET a == invoke(s, ArrivedAtPlace, p, 352)
                       IN  [a EXCEPT !.placesVisited = mapSet(@, p, TRUE),
                                     !.placesAt = mapSet(@, p, TRUE),
                                     !.everConfirmed = @ \cup {p}]
                  ELSE invoke([s EXCEPT !.visited[p] = FALSE], VisitedReverted, p, 357)
             ELSE [s EXCEPT !.placesAt = mapSet(@, p, FALSE)]
        ELSE s

\* update(), lines 344-363: the sweep over every place, from index i
RECURSIVE sweep(_, _)
sweep(s, i) == IF i < Len(s.places) THEN sweep(sweepStep(s, i), i + 1) ELSE s

\* completionCheck without the emittedAllVisited latch
completionCheckNoLatch(s) ==
    LET allVisited == /\ Cardinality(DOMAIN s.placesVisited) > 0
                      /\ \A p \in DOMAIN s.placesVisited : s.placesVisited[p]
    IN  IF allVisited
        THEN invoke([s EXCEPT !.emittedAllVisited = TRUE], AllPlacesVisited, Null, 374)
        ELSE s

\* completionCheck with allVisited starting at true: an empty placesVisited counts
\* as all visited
completionCheckWithoutSizeTest(s) ==
    IF ~s.emittedAllVisited
    THEN LET allVisited == \A p \in DOMAIN s.placesVisited : s.placesVisited[p]
         IN  IF allVisited
             THEN invoke([s EXCEPT !.emittedAllVisited = TRUE], AllPlacesVisited, Null, 374)
             ELSE s
    ELSE s

\* completionCheck that also sets the status to Succeeded when it announces that
\* all places are visited
completionCheckSetsSucceeded(s) ==
    IF ~s.emittedAllVisited
    THEN LET allVisited == /\ Cardinality(DOMAIN s.placesVisited) > 0
                           /\ \A p \in DOMAIN s.placesVisited : s.placesVisited[p]
         IN  IF allVisited
             THEN invoke([s EXCEPT !.emittedAllVisited = TRUE, !.status = Succeeded],
                         AllPlacesVisited, Null, 374)
             ELSE s
    ELSE s

\* update(), lines 365-376: the completion check
completionCheck(s) ==
    IF ~s.emittedAllVisited
    THEN LET allVisited == /\ Cardinality(DOMAIN s.placesVisited) > 0
                           /\ \A p \in DOMAIN s.placesVisited : s.placesVisited[p]
         IN  IF allVisited
             THEN invoke([s EXCEPT !.emittedAllVisited = TRUE], AllPlacesVisited, Null, 374)
             ELSE s
    ELSE s

RECURSIVE update(_, _)
RECURSIVE navigateToPlace(_, _, _)

\* advance that clears the selection after the last waypoint but forgets the status
advanceWithoutSucceeded(s, g) ==
    IF s.visited[s.selectedPlace]
    THEN LET s1 == invoke(s, ArrivedAtPlace, s.selectedPlace, 320)
             s2 == [s1 EXCEPT !.hasArrivedAtSelectedPlace = TRUE]
             currentIdx == indexOf(s2.places, s2.selectedPlace)
             nextPlace == nextUnvisited(s2, currentIdx + 1)
         IN  IF nextPlace # Null
             THEN navigateToPlace([s2 EXCEPT !.selectedPlace = Null], g, nextPlace)
             ELSE [s2 EXCEPT !.selectedPlace = Null]
    ELSE s

\* advance that looks for the next unvisited place from the start of the list
advanceScansFromStart(s, g) ==
    IF s.visited[s.selectedPlace]
    THEN LET s1 == invoke(s, ArrivedAtPlace, s.selectedPlace, 320)
             s2 == [s1 EXCEPT !.hasArrivedAtSelectedPlace = TRUE]
             nextPlace == nextUnvisited(s2, 0)
         IN  IF nextPlace # Null
             THEN navigateToPlace([s2 EXCEPT !.selectedPlace = Null], g, nextPlace)
             ELSE [s2 EXCEPT !.selectedPlace = Null, !.status = Succeeded]
    ELSE s

\* advance that keeps the selection when no unvisited place follows
advanceKeepsLastSelected(s, g) ==
    IF s.visited[s.selectedPlace]
    THEN LET s1 == invoke(s, ArrivedAtPlace, s.selectedPlace, 320)
             s2 == [s1 EXCEPT !.hasArrivedAtSelectedPlace = TRUE]
             currentIdx == indexOf(s2.places, s2.selectedPlace)
             nextPlace == nextUnvisited(s2, currentIdx + 1)
         IN  IF nextPlace # Null
             THEN navigateToPlace([s2 EXCEPT !.selectedPlace = Null], g, nextPlace)
             ELSE [s2 EXCEPT !.status = Succeeded]
    ELSE s

\* update(), lines 318-340: what follows the arrival check for the selected place
advance(s, g) ==
    IF s.visited[s.selectedPlace]
    THEN LET s1 == invoke(s, ArrivedAtPlace, s.selectedPlace, 320)
             s2 == [s1 EXCEPT !.hasArrivedAtSelectedPlace = TRUE]
             currentIdx == indexOf(s2.places, s2.selectedPlace)
             nextPlace == nextUnvisited(s2, currentIdx + 1)
         IN  IF nextPlace # Null
             THEN navigateToPlace([s2 EXCEPT !.selectedPlace = Null], g, nextPlace)
             ELSE [s2 EXCEPT !.selectedPlace = Null, !.status = Succeeded]
    ELSE s

\* update() reads .visited of this._places[i] for every index of the list (347, and
\* 327, 351 on the way): it throws a TypeError iff one of them is null or undefined.
\* Its other reads are guarded: selectedPlace by line 300, prev by !prev (306).
updateThrows(s) == \E i \in 0..(Len(s.places) - 1) : isNull(at(s.places, i))

\* NavigationDataComponent.update
update(s, g) ==
    LET s1 == IF s.selectedPlace # Null /\ s.selectedPlace # Undefined
              THEN advance(arrivalCheck(s, g), g)
              ELSE s
    IN  completionCheck(sweep(s1, 0))

\* navigateToPlace that selects the place before it runs update(), so that the
\* arrival check of that update() already looks at the new place
navigateToPlaceSelectsFirst(s, g, place) ==
    IF s.selectedPlace = place THEN s
    ELSE LET s1 == IF ~includes(s.places, place) /\ ~isNull(place)
                   THEN addPlace(s, place) ELSE s
             s2 == [s1 EXCEPT !.status =
                        IF isNull(place) THEN LocationNotSelected ELSE InProgress,
                              !.selectedPlace = place,
                              !.hasArrivedAtSelectedPlace = FALSE]
             s3 == update(s2, g)
         IN  invoke(s3, NavigationStarted, place, 255)

\* navigateToPlace that does not register a place it does not know
navigateToPlaceWithoutRegistering(s, g, place) ==
    IF s.selectedPlace = place THEN s
    ELSE LET s2 == [s EXCEPT !.status =
                        IF isNull(place) THEN LocationNotSelected ELSE InProgress]
             s3 == update(s2, g)
             s4 == [s3 EXCEPT !.selectedPlace = place,
                              !.hasArrivedAtSelectedPlace = FALSE]
         IN  invoke(s4, NavigationStarted, place, 255)

\* navigateToPlace that invokes navigationStartedEvent before it runs update()
navigateToPlaceAnnouncesFirst(s, g, place) ==
    IF s.selectedPlace = place THEN s
    ELSE LET s1 == IF ~includes(s.places, place) /\ ~isNull(place)
                   THEN addPlace(s, place) ELSE s
             s2 == [s1 EXCEPT !.status =
                        IF isNull(place) THEN LocationNotSelected ELSE InProgress]
             s3 == update(invoke(s2, NavigationStarted, place, 255), g)
         IN  [s3 EXCEPT !.selectedPlace = place,
                        !.hasArrivedAtSelectedPlace = FALSE]

\* NavigationDataComponent.navigateToPlace
navigateToPlace(s, g, place) ==
    IF s.selectedPlace = place THEN s
    ELSE LET s1 == IF ~includes(s.places, place) /\ ~isNull(place)
                   THEN addPlace(s, place) ELSE s
             s2 == [s1 EXCEPT !.status =
                        IF isNull(place) THEN LocationNotSelected ELSE InProgress]
             s3 == update(s2, g)
             s4 == [s3 EXCEPT !.selectedPlace = place,
                              !.hasArrivedAtSelectedPlace = FALSE]
         IN  invoke(s4, NavigationStarted, place, 255)

\* NavigationDataComponent.stopNavigation
stopNavigation(s, g) == navigateToPlace(s, g, Null)

---------------------------------------------------------------------------
(* The state machine *)

\* the controller's fields at the start of an operation (its log empty)
State ==
    [places |-> places, visited |-> visited, status |-> status,
     selectedPlace |-> selectedPlace, placesVisited |-> placesVisited,
     placesAt |-> placesAt, emittedAllVisited |-> emittedAllVisited,
     hasArrivedAtSelectedPlace |-> hasArrivedAtSelectedPlace,
     emitted |-> <<>>, everConfirmed |-> everConfirmed,
     allVisitedCount |-> allVisitedCount,
     arrowSubscribed |-> arrowSubscribed, arrowSelectedPlace |-> arrowSelectedPlace,
     arrowEnabled |-> arrowEnabled, arrowLog |-> <<>>,
     worldSubscribed |-> worldSubscribed, spawnedPlaces |-> spawnedPlaces,
     lastVisitedIndex |-> lastVisitedIndex, placeStatusMap |-> placeStatusMap,
     lastChain |-> lastChain, tweenLog |-> <<>>,
     geoLocalizationAvailable |-> geoLocalizationAvailable,
     locationBearing |-> locationBearing, bearing |-> bearing, arrivedLog |-> <<>>,
     allVisitedLog |-> <<>>]

Commit(s) ==
    /\ places' = s.places
    /\ visited' = s.visited
    /\ status' = s.status
    /\ selectedPlace' = s.selectedPlace
    /\ placesVisited' = s.placesVisited
    /\ placesAt' = s.placesAt
    /\ emittedAllVisited' = s.emittedAllVisited
    /\ hasArrivedAtSelectedPlace' = s.hasArrivedAtSelectedPlace
    /\ emitted' = s.emitted
    /\ everConfirmed' = s.everConfirmed
    /\ allVisitedCount' = s.allVisitedCount
    /\ arrowSubscribed' = s.arrowSubscribed
    /\ arrowSelectedPlace' = s.arrowSelectedPlace
    /\ arrowEnabled' = s.arrowEnabled
    /\ arrowLog' = s.arrowLog
    /\ worldSubscribed' = s.worldSubscribed
    /\ spawnedPlaces' = s.spawnedPlaces
    /\ lastVisitedIndex' = s.lastVisitedIndex
    /\ placeStatusMap' = s.placeStatusMap
    /\ lastChain' = s.lastChain
    /\ tweenLog' = s.tweenLog
    /\ geoLocalizationAvailable' = s.geoLocalizationAvailable
    /\ locationBearing' = s.locationBearing
    /\ bearing' = s.bearing
    /\ arrivedLog' = s.arrivedLog
    /\ allVisitedLog' = s.allVisitedLog

\* the listeners as they are constructed: the arrow hidden and without a target
\* (ARNavigation.onAwake), no marker spawned (WorldController's field initialisers)
SceneInit ==
    /\ arrowSelectedPlace = Null
    /\ arrowEnabled = FALSE
    /\ arrowLog = <<>>
    /\ spawnedPlaces = {}
    /\ lastVisitedIndex = -1
    /\ placeStatusMap = <<>>
    /\ lastChain = <<>>
    /\ tweenLog = <<>>
    /\ arrivedLog = <<>>
    /\ allVisitedLog = <<>>

\* no bearing has been asked for
NoBearingRequest ==
    /\ geoLocalizationAvailable = FALSE
    /\ locationBearing = 0
    /\ bearing = NoBearing

\* a scene with the controller alone: nothing listens to its events
NoListeners ==
    /\ SceneInit
    /\ arrowSubscribed = FALSE
    /\ worldSubscribed = FALSE

Init ==
    /\ places = <<>>
    /\ visited = [p \in AllPlaces |-> FALSE]
    /\ status = Initializing
    /\ selectedPlace = Undefined
    /\ placesVisited = <<>>
    /\ placesAt = <<>>
    /\ emittedAllVisited = FALSE
    /\ hasArrivedAtSelectedPlace = FALSE
    /\ gps = NoFix
    /\ emitted = <<>>
    /\ lastOp = "init"
    /\ everConfirmed = {}
    /\ allVisitedCount = "never"
    /\ NoListeners
    /\ NoBearingRequest

\* a GPS reading arrives: the user's position changes
GeoUpdate ==
    /\ \E g \in GpsFixes : g # gps /\ gps' = g
    /\ Commit(State)
    /\ lastOp' = "geoUpdate"

\* the per-frame callback the Place constructor binds
PlaceUpdate(p) ==
    /\ Commit(IF checkVisited(gps, p) THEN [State EXCEPT !.visited[p] = TRUE] ELSE State)
    /\ lastOp' = "placeUpdate"
    /\ UNCHANGED gps

\* the per-frame callback onAwake binds: update()
Tick ==
    /\ Commit(update(State, gps))
    /\ lastOp' = "update"
    /\ UNCHANGED gps

CallNavigateToPlace(p) ==
    /\ Commit(navigateToPlace(State, gps, p))
    /\ lastOp' = "navigateToPlace"
    /\ UNCHANGED gps

CallStopNavigation ==
    /\ Commit(stopNavigation(State, gps))
    /\ lastOp' = "navigateToPlace"
    /\ UNCHANGED gps

CallAddPlace(p) ==
    /\ Commit(addPlace(State, p))
    /\ lastOp' = "addPlace"
    /\ UNCHANGED gps

CallRemovePlace(p) ==
    /\ Commit(removePlace(State, p))
    /\ lastOp' = "removePlace"
    /\ UNCHANGED gps

Next ==
    \/ GeoUpdate
    \/ \E p \in AllPlaces : PlaceUpdate(p)
    \/ Tick
    \/ \E p \in AllPlaces : CallNavigateToPlace(p)
    \/ CallStopNavigation
    \/ \E p \in AllPlaces \cup {Null} : CallAddPlace(p)
    \/ \E p \in AllPlaces : CallRemovePlace(p)

Spec == Init /\ [][Next]_vars

---------------------------------------------------------------------------
(* Vocabulary of the properties *)

Registered == {places[i] : i \in 1..Len(places)}

\* how many entries <<ev, p, _>> the log e holds
CountOf(e, ev, p) == Cardinality({k \in 1..Len(e) : e[k][1] = ev /\ e[k][2] = p})

\* how many entries of event ev the log e holds, whatever the place
CountEvent(e, ev) == Cardinality({k \in 1..Len(e) : e[k][1] = ev})

InLog(e, ev, p, line) == \E k \in 1..Len(e) : e[k] = <<ev, p, line>>

\* the sweep has confirmed p and p has stayed registered since
Confirmed(p) == p \in DOMAIN placesVisited /\ placesVisited[p]

\* the user is inside p's own configured activation radius
WithinRadius(p) == gps # NoFix /\ gps[p] < distanceToVisit(p)

AllRegisteredVisited == Len(places) > 0 /\ \A p \in Registered : visited[p]

---------------------------------------------------------------------------
(* C1: sequential unlock *)

\* C1 as stated: no step takes waypoint[i+1] from unvisited to visited while
\* waypoint[i] is unvisited.
C1_NoTransitionBeforePredecessor ==
    [][\A i \in 1..(Len(places) - 1) :
          (places' = places /\ ~visited[places[i + 1]] /\ visited'[places[i + 1]])
              => visited'[places[i]]]_vars

\* what the controller does keep: waypoint[i+1] is never confirmed visited
\* (recorded by the sweep in placesVisited) while waypoint[i].visited is false,
\* even with the user inside both activation radii; only the raw flag can be
\* raised early, by the waypoint's own per-frame check.
C1_SequentialUnlock ==
    \A i \in 1..(Len(places) - 1) : Confirmed(places[i + 1]) => visited[places[i]]

\* an update() has run with the user inside both radii, the first waypoint
\* unvisited, and the second one was pushed back instead of confirmed
C1_Witness ==
    /\ lastOp = "update"
    /\ Len(places) >= 2
    /\ WithinRadius(places[1]) /\ WithinRadius(places[2])
    /\ ~visited[places[1]] /\ ~visited[places[2]]
    /\ InLog(emitted, VisitedReverted, places[2], 357)

---------------------------------------------------------------------------
(* C2: the arrival check of the active waypoint *)

\* C2 as stated: in a tick whose active waypoint w is registered, the arrival
\* check (line 315) marks w visited and emits onArrivedAtPlace(w) exactly when the
\* distance is known and at most w's own activation radius, w is first or its
\* predecessor is visited, and w is not yet visited.
C2_ArrivalCheckUsesOwnRadius ==
    [][(lastOp' = "update" /\ selectedPlace \in Registered) =>
          LET w == selectedPlace
              idx == indexOf(places, w)
          IN  (InLog(emitted', ArrivedAtPlace, w, 315) /\ visited'[w])
              <=> /\ gps # NoFix
                  /\ gps[w] <= distanceToVisit(w)
                  /\ (idx = 0 \/ visited[at(places, idx - 1)])
                  /\ ~visited[w]]_vars

---------------------------------------------------------------------------
(* C3: out-of-order correction *)

\* C3 as stated: a tick reverts every registered, non-active waypoint that is
\* visited while its immediate predecessor is unvisited, and does not confirm it.
C3_SweepRevertsOutOfOrder ==
    [][lastOp' = "update" =>
          \A i \in 1..(Len(places) - 1) :
              (/\ places[i + 1] # selectedPlace
               /\ visited[places[i + 1]]
               /\ ~visited[places[i]])
                  => (~visited'[places[i + 1]] /\ ~Confirmed(places[i + 1])')]_vars

\* C3 as amended: the same, provided the predecessor is not marked visited by the
\* arrival check of that very tick (it is still unvisited when the tick ends).
C3_SweepRevertsUnlessPredecessorArrives ==
    [][lastOp' = "update" =>
          \A i \in 1..(Len(places) - 1) :
              (/\ places[i + 1] # selectedPlace
               /\ visited[places[i + 1]]
               /\ ~visited[places[i]]
               /\ ~visited'[places[i]])
                  => (~visited'[places[i + 1]] /\ ~Confirmed(places[i + 1])')]_vars

\* a tick has just reverted a waypoint that is not the active one
C3_Witness ==
    /\ lastOp = "update"
    /\ \E i \in 1..(Len(places) - 1) :
          /\ InLog(emitted, VisitedReverted, places[i + 1], 357)
          /\ places[i + 1] # selectedPlace
          /\ ~visited[places[i]]
          /\ ~visited[places[i + 1]]
          /\ ~Confirmed(places[i + 1])

---------------------------------------------------------------------------
(* C4: the completion latch *)

\* C4: a tick emits onAllPlacesVisited at most once; a tick that ends with every
\* registered waypoint visited (list non-empty) leaves the latch set, having
\* emitted the event exactly once if the latch was not set before; and a tick
\* that starts with the latch set emits no onAllPlacesVisited.
C4_CompletionLatch ==
    [][lastOp' = "update" =>
          /\ CountEvent(emitted', AllPlacesVisited) <= 1
          /\ AllRegisteredVisited' => emittedAllVisited'
          /\ (AllRegisteredVisited' /\ ~emittedAllVisited)
                 => CountEvent(emitted', AllPlacesVisited) = 1
          /\ emittedAllVisited => CountEvent(emitted', AllPlacesVisited) = 0]_vars

\* a further tick after completion: everything visited, the event emitted once
\* before, and nothing emitted by this tick
C4_Witness ==
    /\ lastOp = "update"
    /\ AllRegisteredVisited
    /\ Len(places) = NumPlaces
    /\ emittedAllVisited
    /\ allVisitedCount = "once"
    /\ emitted = <<>>

---------------------------------------------------------------------------
(* C5: status Succeeded *)

\* C5 as stated: status is Succeeded exactly when the list is non-empty and every
\* registered waypoint is visited.
C5_SucceededIffAllVisited == (status = Succeeded) <=> AllRegisteredVisited

---------------------------------------------------------------------------
(* C6: monotonic visited *)

---------------------------------------------------------------------------
(* C7: idempotent selection *)

\* C7 as stated: two navigateToPlace(w) calls in a row with the same w emit
\* onNavigationStarted at most once in total.  (After navigateToPlace(w) the
\* selected place is w, so a second call with the same w is the navigateToPlace
\* step that leaves selectedPlace as it is.)
C7_SelectTwiceEmitsOnce ==
    [][(/\ lastOp = "navigateToPlace"
        /\ lastOp' = "navigateToPlace"
        /\ selectedPlace' = selectedPlace)
          => CountEvent(emitted, NavigationStarted)
                 + CountEvent(emitted', NavigationStarted) <= 1]_vars

---------------------------------------------------------------------------
(* C8: single arrival notification *)

\* C8 as stated: with waypoints A (active) then B, both unvisited, a tick with the
\* user inside A's activation radius makes A visited, makes B the active waypoint
\* and emits onArrivedAtPlace(A) exactly once.
C8_ArrivalNotifiedOnce ==
    [][(/\ lastOp' = "update"
        /\ Len(places) = 2
        /\ selectedPlace = places[1]
        /\ ~visited[places[1]] /\ ~visited[places[2]]
        /\ WithinRadius(places[1]))
          => /\ visited'[places[1]]
             /\ selectedPlace' = places[2]
             /\ CountOf(emitted', ArrivedAtPlace, places[1]) = 1]_vars

---------------------------------------------------------------------------
(* C9: co-located waypoints *)

\* C9 as stated: with waypoints A (active) then B, both unvisited and the user
\* inside both activation radii, the tick makes A visited and leaves B unvisited;
\* and B goes from unvisited to visited only once A has been confirmed.
C9_CoLocatedOnlyFirstVisited ==
    [][/\ (/\ lastOp' = "update"
           /\ Len(places) >= 2
           /\ selectedPlace = places[1]
           /\ ~visited[places[1]] /\ ~visited[places[2]]
           /\ WithinRadius(places[1]) /\ WithinRadius(places[2]))
             => (visited'[places[1]] /\ ~visited'[places[2]])
       /\ (/\ Len(places) >= 2
           /\ places' = places
           /\ ~visited[places[2]] /\ visited'[places[2]])
             => Confirmed(places[1])]_vars

---------------------------------------------------------------------------
(* C10: a quest walked in order completes *)

\* every order in which the waypoints can be registered
Orders == {o \in [1..NumPlaces -> AllPlaces] : \A i, j \in 1..NumPlaces : o[i] = o[j] => i = j}

\* the quest set up and started: every waypoint registered (addPlace), the first
\* one selected (navigateToPlace), nothing visited, no GPS fix yet
QuestInit ==
    /\ places \in Orders
    /\ visited = [p \in AllPlaces |-> FALSE]
    /\ status = InProgress
    /\ selectedPlace = places[1]
    /\ placesVisited = [p \in AllPlaces |-> FALSE]
    /\ placesAt = [p \in AllPlaces |-> FALSE]
    /\ emittedAllVisited = FALSE
    /\ hasArrivedAtSelectedPlace = FALSE
    /\ gps = NoFix
    /\ emitted = <<<<NavigationStarted, places[1], 255>>>>
    /\ lastOp = "navigateToPlace"
    /\ everConfirmed = {}
    /\ allVisitedCount = "never"
    /\ NoListeners
    /\ NoBearingRequest

\* the user walks to the active waypoint: a GPS reading that puts the user inside
\* its activation radius, wherever that leaves the other waypoints
WalkToActive ==
    /\ selectedPlace \in AllPlaces
    /\ ~visited[selectedPlace]
    /\ ~WithinRadius(selectedPlace)
    /\ \E g \in GpsFixes : g[selectedPlace] < distanceToVisit(selectedPlace) /\ gps' = g
    /\ Commit(State)
    /\ lastOp' = "geoUpdate"

QuestNext ==
    \/ WalkToActive
    \/ \E p \in AllPlaces : PlaceUpdate(p)
    \/ Tick

\* ENABLED <<Tick>>_vars as a state predicate: update() has no guard, so the step
\* is possible exactly when its result differs from the current state
TickEnabled ==
    \/ lastOp # "update"
    \/ update(State, gps) # [State EXCEPT !.emitted = emitted]

\* every per-frame callback keeps running, and the user keeps walking; the
\* second fairness conjunct is WF_vars(Tick) with its ENABLED written out
QuestSpec ==
    /\ QuestInit
    /\ [][QuestNext]_vars
    /\ WF_vars(WalkToActive)
    /\ ([]<>(~TickEnabled) \/ []<><<Tick>>_vars)
    /\ \A p \in AllPlaces : WF_vars(PlaceUpdate(p))

\* C10: from the first waypoint active and nothing visited, with the user coming
\* inside the radius of each active waypoint in turn and the frame callbacks
\* running, the quest ends Succeeded with no active waypoint, and
\* onAllPlacesVisited has been emitted exactly once.
C10_QuestCompletes ==
    <>[](/\ status = Succeeded
         /\ selectedPlace = Null
         /\ allVisitedCount = "once")

\* the quest done: every waypoint registered, visited and confirmed
C10_Witness ==
    /\ status = Succeeded
    /\ selectedPlace = Null
    /\ allVisitedCount = "once"
    /\ Len(places) = NumPlaces
    /\ \A p \in AllPlaces : visited[p] /\ Confirmed(p)

---------------------------------------------------------------------------
(* C11: arrival on the last waypoint *)

\* the last registered waypoint, Null for an empty list
LastPlace == IF Len(places) > 0 THEN places[Len(places)] ELSE Null

\* C11: a tick whose active waypoint is the last of the list, and is visited
\* when the tick starts or is marked visited by its arrival check, ends with no
\* active waypoint and status Succeeded, and emits no onNavigationStarted.
C11_LastArrivalSucceeds ==
    [][(/\ Tick
        /\ selectedPlace \in AllPlaces
        /\ selectedPlace = LastPlace
        /\ (visited[selectedPlace] \/ InLog(emitted', ArrivedAtPlace, selectedPlace, 315)))
          => /\ selectedPlace' = Null
             /\ status' = Succeeded
             /\ CountEvent(emitted', NavigationStarted) = 0]_vars

\* a tick has arrived at the last waypoint while an earlier one is unvisited:
\* the quest is over, nothing else was selected
C11_Witness ==
    /\ lastOp = "update"
    /\ Len(places) = NumPlaces
    /\ InLog(emitted, ArrivedAtPlace, LastPlace, 320)
    /\ ~visited[places[1]]
    /\ selectedPlace = Null
    /\ status = Succeeded

---------------------------------------------------------------------------
(* C12: stopNavigation *)

\* C12 as stated: stopNavigation() called with a waypoint active ends with no
\* active waypoint, status LocationNotSelected, and onNavigationStarted(null)
\* emitted.
C12_StopClearsSelection ==
    [][(CallStopNavigation /\ selectedPlace \in AllPlaces)
          => /\ selectedPlace' = Null
             /\ status' = LocationNotSelected
             /\ InLog(emitted', NavigationStarted, Null, 255)]_vars

---------------------------------------------------------------------------
(* C13: navigateToPlace with a waypoint that is not the active one *)

\* C13 as stated: navigateToPlace(w), w non-null and not the active waypoint,
\* ends with w active, status InProgress, and onNavigationStarted(w) emitted.
C13_SelectActivates ==
    [][\A w \in AllPlaces :
          (CallNavigateToPlace(w) /\ selectedPlace # w)
              => /\ selectedPlace' = w
                 /\ status' = InProgress
                 /\ InLog(emitted', NavigationStarted, w, 255)]_vars

---------------------------------------------------------------------------
(* C14: quest progress comes from the tick only *)

\* C14 as stated: navigateToPlace and stopNavigation change no visited flag, do
\* not set status to Succeeded, and emit neither onArrivedAtPlace nor
\* onAllPlacesVisited.
C14_SelectionMakesNoProgress ==
    [][(CallStopNavigation \/ \E w \in AllPlaces : CallNavigateToPlace(w))
          => /\ visited' = visited
             /\ (status' = Succeeded => status = Succeeded)
             /\ CountEvent(emitted', ArrivedAtPlace) = 0
             /\ CountEvent(emitted', AllPlacesVisited) = 0]_vars

---------------------------------------------------------------------------
(* C15: who changes a visited flag *)

\* C15 as stated: the per-frame evaluation of a waypoint's own arrival predicate
\* changes no visited flag.
C15_OwnCheckChangesNothing ==
    [][\A p \in AllPlaces : PlaceUpdate(p) => visited' = visited]_vars

---------------------------------------------------------------------------
(* A route of NumPlaces + 1 waypoints, registered at scene start            *)

NumRoutePlaces == NumPlaces + 1

RoutePlaces == 1..NumRoutePlaces

\* on a route the user is either next to a waypoint or 15 m from it
RouteDistValues == {3, 15}

RouteFixes == [RoutePlaces -> RouteDistValues]

RouteOrders ==
    {o \in [1..NumRoutePlaces -> RoutePlaces] :
        \A i, j \in 1..NumRoutePlaces : o[i] = o[j] => i = j}

\* ManualPlaceList.start has registered every waypoint, in some order
RouteInit ==
    /\ places \in RouteOrders
    /\ visited = [p \in RoutePlaces |-> FALSE]
    /\ status = Initializing
    /\ selectedPlace = Undefined
    /\ placesVisited = [p \in RoutePlaces |-> FALSE]
    /\ placesAt = [p \in RoutePlaces |-> FALSE]
    /\ emittedAllVisited = FALSE
    /\ hasArrivedAtSelectedPlace = FALSE
    /\ gps = NoFix
    /\ emitted = <<<<PlacesUpdated, Null, 277>>>>
    /\ lastOp = "addPlace"
    /\ everConfirmed = {}
    /\ allVisitedCount = "never"
    /\ NoListeners
    /\ NoBearingRequest

RouteGeoUpdate ==
    /\ \E g \in RouteFixes : g # gps /\ gps' = g
    /\ Commit(State)
    /\ lastOp' = "geoUpdate"

RouteNext ==
    \/ RouteGeoUpdate
    \/ \E p \in RoutePlaces : PlaceUpdate(p)
    \/ Tick
    \/ \E p \in RoutePlaces : CallNavigateToPlace(p)

RouteSpec == RouteInit /\ [][RouteNext]_vars

\* the 1-based position of the active waypoint in the list, 0 when it is not there
ActiveIndex == indexOf(places, selectedPlace) + 1

\* the active waypoint is visited when the tick looks at it: it was visited
\* before, or the arrival check of the tick marks it
ActiveVisitedInTick ==
    \/ visited[selectedPlace]
    \/ InLog(emitted', ArrivedAtPlace, selectedPlace, 315)

---------------------------------------------------------------------------
(* C16: the target of the auto-advance *)

\* C16: when a tick finds the active waypoint (at position k) visited and some
\* waypoint after it unvisited, the new active waypoint is the unvisited
\* waypoint with the smallest position after k.
C16_AdvanceToFirstUnvisitedAfter ==
    [][(/\ Tick
        /\ selectedPlace \in Registered
        /\ ActiveVisitedInTick
        /\ \E j \in (ActiveIndex + 1)..Len(places) : ~visited[places[j]])
          => \E j \in (ActiveIndex + 1)..Len(places) :
                /\ ~visited[places[j]]
                /\ \A i \in (ActiveIndex + 1)..(j - 1) : visited[places[i]]
                /\ selectedPlace' = places[j]]_vars

\* a tick has advanced from the first waypoint over a visited second one to
\* the third
C16_Witness ==
    /\ lastOp = "update"
    /\ Len(places) >= 3
    /\ InLog(emitted, ArrivedAtPlace, places[1], 320)
    /\ visited[places[2]]
    /\ selectedPlace = places[3]
    /\ InLog(emitted, NavigationStarted, places[3], 255)

---------------------------------------------------------------------------
(* C17: one advance per tick *)

\* C17: a tick emits onNavigationStarted at most once (the active waypoint
\* changes at most once), and a waypoint that the tick makes active is not
\* marked visited, nor announced as arrived at, in that tick.
C17_OneAdvancePerTick ==
    [][Tick =>
          /\ CountEvent(emitted', NavigationStarted) <= 1
          /\ (selectedPlace' # selectedPlace /\ ~isNull(selectedPlace'))
                => /\ ~visited'[selectedPlace']
                   /\ CountOf(emitted', ArrivedAtPlace, selectedPlace') = 0]_vars

\* a tick has advanced to a waypoint the user is standing next to, and has left
\* it unvisited
C17_Witness ==
    /\ lastOp = "update"
    /\ CountEvent(emitted, NavigationStarted) = 1
    /\ selectedPlace \in Registered
    /\ gps # NoFix /\ gps[selectedPlace] = 3
    /\ ~visited[selectedPlace]
    /\ visited[places[1]]

---------------------------------------------------------------------------
(* C18: addPlace *)

\* C18: addPlace(p) of a registered waypoint changes nothing (list, visited
\* bookkeeping, completion latch, active waypoint, flags, status) and emits
\* nothing; addPlace(p) of a waypoint that is not registered appends p at the
\* end of the list and emits onPlacesUpdated.
C18_AddPlaceIdempotent ==
    [][\A p \in AllPlaces :
          CallAddPlace(p) =>
              IF p \in Registered
              THEN /\ places' = places
                   /\ placesVisited' = placesVisited
                   /\ placesAt' = placesAt
                   /\ emittedAllVisited' = emittedAllVisited
                   /\ selectedPlace' = selectedPlace
                   /\ visited' = visited
                   /\ status' = status
                   /\ emitted' = <<>>
              ELSE /\ places' = Append(places, p)
                   /\ emitted' = <<<<PlacesUpdated, Null, 277>>>>]_vars

\* a duplicate addPlace after the quest was completed: the latch is still set
\* and the confirmations are still there
C18_Witness ==
    /\ lastOp = "addPlace"
    /\ emitted = <<>>
    /\ Len(places) = NumPlaces
    /\ emittedAllVisited
    /\ \A p \in Registered : Confirmed(p)

---------------------------------------------------------------------------
(* C19: removePlace *)

\* the list is edited while the quest runs: waypoints are added and removed,
\* the user moves along the route, and the frame callbacks run
EditInit ==
    /\ places = <<>>
    /\ visited = [p \in RoutePlaces |-> FALSE]
    /\ status = Initializing
    /\ selectedPlace = Undefined
    /\ placesVisited = <<>>
    /\ placesAt = <<>>
    /\ emittedAllVisited = FALSE
    /\ hasArrivedAtSelectedPlace = FALSE
    /\ gps = NoFix
    /\ emitted = <<>>
    /\ lastOp = "init"
    /\ everConfirmed = {}
    /\ allVisitedCount = "never"
    /\ NoListeners
    /\ NoBearingRequest

EditNext ==
    \/ RouteGeoUpdate
    \/ \E p \in RoutePlaces : PlaceUpdate(p)
    \/ Tick
    \/ \E p \in RoutePlaces : CallAddPlace(p)
    \/ \E p \in RoutePlaces : CallRemovePlace(p)

EditSpec == EditInit /\ [][EditNext]_vars

\* seq2 is seq1 with every occurrence of p taken out, the rest in the same order
SameOrderWithout(seq1, seq2, p) ==
    /\ Len(seq2) = Len(seq1) - 1
    /\ \A i \in 1..Len(seq2) : seq2[i] # p
    /\ \A i, j \in 1..Len(seq1) :
          (i < j /\ seq1[i] # p /\ seq1[j] # p)
              => \E a, b \in 1..Len(seq2) : a < b /\ seq2[a] = seq1[i] /\ seq2[b] = seq1[j]
    /\ \A x \in {seq1[i] : i \in 1..Len(seq1)} \ {p} : \E a \in 1..Len(seq2) : seq2[a] = x

\* C19: removePlace(p) of a registered waypoint removes p from the list and from
\* placesVisited and placesAt, keeps what is left (order and bookkeeping) and
\* emits onPlacesUpdated; removePlace(p) of a waypoint that is not registered
\* changes nothing and emits nothing.
C19_RemovePlace ==
    [][\A p \in RoutePlaces :
          CallRemovePlace(p) =>
              IF p \in Registered
              THEN /\ SameOrderWithout(places, places', p)
                   /\ DOMAIN placesVisited' = DOMAIN placesVisited \ {p}
                   /\ DOMAIN placesAt' = DOMAIN placesAt \ {p}
                   /\ \A q \in DOMAIN placesVisited' : placesVisited'[q] = placesVisited[q]
                   /\ \A q \in DOMAIN placesAt' : placesAt'[q] = placesAt[q]
                   /\ emitted' = <<<<PlacesUpdated, Null, 294>>>>
              ELSE /\ places' = places
                   /\ placesVisited' = placesVisited
                   /\ placesAt' = placesAt
                   /\ emittedAllVisited' = emittedAllVisited
                   /\ selectedPlace' = selectedPlace
                   /\ visited' = visited
                   /\ status' = status
                   /\ emitted' = <<>>]_vars

\* a confirmed waypoint has just been removed from a list of three; the two
\* that are left keep their order and their bookkeeping
C19_Witness ==
    /\ lastOp = "removePlace"
    /\ emitted = <<<<PlacesUpdated, Null, 294>>>>
    /\ Len(places) = NumRoutePlaces - 1
    /\ \E p \in RoutePlaces :
          /\ p \notin Registered
          /\ p \in everConfirmed
          /\ p \notin DOMAIN placesVisited
    /\ Confirmed(places[1])
    /\ ~Confirmed(places[2])

---------------------------------------------------------------------------
(* C20: navigateToPlace registers a waypoint it does not know *)

\* what C20 promises of a navigateToPlace(w) step
RegisteredThenStarted(w) ==
    /\ places' = Append(places, w)
    /\ Len(emitted') >= 2
    /\ emitted'[1] = <<PlacesUpdated, Null, 277>>
    /\ emitted'[Len(emitted')] = <<NavigationStarted, w, 255>>
    /\ selectedPlace' = w

---------------------------------------------------------------------------
(* C21: registering a null waypoint fails with an error: the call ends in   *)
(* the thrown Error, the ordered list, the bookkeeping maps, the completion *)
(* latch, the active waypoint, the status and every visited flag are as     *)
(* they were, and no event is emitted.                                      *)
C21_AddNullThrowsAndChangesNothing ==
    [][CallAddPlace(Null) =>
          /\ emitted' = << <<ErrorThrown, Null, 270>> >>
          /\ places' = places
          /\ placesVisited' = placesVisited
          /\ placesAt' = placesAt
          /\ emittedAllVisited' = emittedAllVisited
          /\ hasArrivedAtSelectedPlace' = hasArrivedAtSelectedPlace
          /\ selectedPlace' = selectedPlace
          /\ status' = status
          /\ visited' = visited]_vars

\* addPlace(null) has thrown while waypoints were registered, one of them active,
\* and the completion latch was set
C21_Witness ==
    /\ lastOp = "addPlace"
    /\ emitted = << <<ErrorThrown, Null, 270>> >>
    /\ Len(places) > 0
    /\ selectedPlace \in AllPlaces
    /\ emittedAllVisited

---------------------------------------------------------------------------
(* C22: the per-tick evaluation never throws: in every reachable state      *)
(* every element of the ordered list is a waypoint object, so that none of  *)
(* update()'s property reads fails, whether or not there is a GPS fix, a    *)
(* registered waypoint, an active waypoint, or an active waypoint that is   *)
(* still in the list.                                                       *)
C22_TickNeverThrows == ~updateThrows(State)

\* a tick has run to its end with no GPS fix, an empty list and an active waypoint
\* that had been removed from the list
C22_Witness ==
    /\ lastOp = "update"
    /\ gps = NoFix
    /\ places = <<>>
    /\ selectedPlace \in AllPlaces

\* a tick has run to its end and left the last waypoint of a full list active
C22_WitnessLastActive ==
    /\ lastOp = "update"
    /\ Len(places) = NumPlaces
    /\ selectedPlace = LastPlace

---------------------------------------------------------------------------
(* C23: while the user has no GPS fix and no waypoint carries a visited     *)
(* flag, a tick marks no waypoint visited, emits no onArrivedAtPlace and    *)
(* leaves the active waypoint and the status as they were.                  *)
C23_NoFixTickDoesNothing ==
    [][(Tick /\ gps = NoFix /\ \A p \in AllPlaces : ~visited[p]) =>
          /\ visited' = visited
          /\ CountEvent(emitted', ArrivedAtPlace) = 0
          /\ selectedPlace' = selectedPlace
          /\ status' = status]_vars

\* a tick has run without a GPS fix while a waypoint of a full list was active
C23_Witness ==
    /\ lastOp = "update"
    /\ gps = NoFix
    /\ Len(places) = NumPlaces
    /\ selectedPlace \in AllPlaces
    /\ status = InProgress
    /\ \A p \in AllPlaces : ~visited[p]

---------------------------------------------------------------------------
(* C24: a waypoint's arrival predicate is true iff the user's distance to   *)
(* it is known and strictly less than the waypoint's activation radius:     *)
(* the waypoint's per-frame callback, which sets the visited flag when the  *)
(* predicate is true, sets the flag of an unvisited waypoint exactly then;  *)
(* on the radius itself, or without a GPS fix, the predicate is false.      *)
C24_ArrivalPredicate ==
    [][\A p \in AllPlaces : PlaceUpdate(p) =>
          /\ checkVisited(gps, p) <=> (gps # NoFix /\ gps[p] < distanceToVisit(p))
          /\ visited'[p] <=> (visited[p] \/ (gps # NoFix /\ gps[p] < distanceToVisit(p)))
          /\ (gps = NoFix \/ gps[p] = distanceToVisit(p)) => ~checkVisited(gps, p)]_vars

\* the callback of a waypoint has run with the user exactly on its radius and left
\* it unvisited, while another waypoint, strictly inside its radius, is visited
C24_Witness ==
    /\ lastOp = "placeUpdate"
    /\ gps # NoFix
    /\ \E p \in AllPlaces : gps[p] = distanceToVisit(p) /\ ~visited[p]
    /\ \E p \in AllPlaces : gps[p] < distanceToVisit(p) /\ visited[p]

---------------------------------------------------------------------------
(* C25: getRelativePosition of a waypoint returns null whenever the user    *)
(* has no GPS fix yet, and a position otherwise.                            *)
C25_RelativePositionNullWithoutFix ==
    \A p \in AllPlaces : (getRelativePosition(gps, p) = NoPosition) <=> (gps = NoFix)

---------------------------------------------------------------------------
(* The route of RouteSpec with the arrow in the scene: ARNavigation's       *)
(* onStart runs at some time and subscribes the arrow to the controller.    *)

ArrowInit == RouteInit

\* ARNavigation's OnStartEvent
ArrowStart ==
    /\ ~arrowSubscribed
    /\ Commit(onStart(State))
    /\ lastOp' = "arrowStart"
    /\ UNCHANGED gps

ArrowNext ==
    \/ RouteGeoUpdate
    \/ \E p \in RoutePlaces : PlaceUpdate(p)
    \/ Tick
    \/ \E p \in RoutePlaces : CallNavigateToPlace(p)
    \/ ArrowStart

ArrowSpec == ArrowInit /\ [][ArrowNext]_vars

\* the 1-based positions, after the arrow's target, of the places a delivery e of
\* onArrivedAtPlace found unvisited
UnvisitedAfterTarget(e) ==
    {j \in 1..Len(e.places) :
        /\ ~e.visited[e.places[j]]
        /\ \E i \in 1..(j - 1) : e.places[i] = e.before}

(* C26: whenever onArrivedAtPlace is delivered to the arrow while its       *)
(* target is a waypoint of the list, the arrow retargets to the first       *)
(* unvisited waypoint that follows the target in quest order and is shown;  *)
(* when no unvisited waypoint follows the target, the arrow is hidden.      *)
C26_ArrowSwitchesToNextUnvisited ==
    \A k \in 1..Len(arrowLog) :
        LET e == arrowLog[k]
            later == UnvisitedAfterTarget(e)
        IN  includes(e.places, e.before) =>
                IF later # {}
                THEN /\ e.after = e.places[CHOOSE j \in later : \A i \in later : j <= i]
                     /\ e.enabled
                ELSE ~e.enabled

\* one tick delivered onArrivedAtPlace to the arrow twice: once it skipped a visited
\* waypoint to retarget to the one after it, once it found nothing left and hid
C26_Witness ==
    /\ lastOp = "update"
    /\ \E k \in 1..Len(arrowLog) :
           LET e == arrowLog[k]
           IN  /\ e.after # e.before
               /\ indexOf(e.places, e.after) > indexOf(e.places, e.before) + 1
               /\ e.enabled
    /\ \E k \in 1..Len(arrowLog) :
           /\ includes(arrowLog[k].places, arrowLog[k].before)
           /\ ~arrowLog[k].enabled

---------------------------------------------------------------------------
(* The controller with the waypoint markers in the scene: WorldController's *)
(* onAwake has subscribed it before any waypoint is registered, and its     *)
(* onUpdate runs every frame.                                               *)

WorldInit ==
    /\ places = <<>>
    /\ visited = [p \in AllPlaces |-> FALSE]
    /\ status = Initializing
    /\ selectedPlace = Undefined
    /\ placesVisited = <<>>
    /\ placesAt = <<>>
    /\ emittedAllVisited = FALSE
    /\ hasArrivedAtSelectedPlace = FALSE
    /\ gps = NoFix
    /\ emitted = <<>>
    /\ lastOp = "init"
    /\ everConfirmed = {}
    /\ allVisitedCount = "never"
    /\ SceneInit
    /\ arrowSubscribed = FALSE
    /\ worldSubscribed = TRUE
    /\ NoBearingRequest

\* WorldController.onUpdate, the per-frame callback onAwake binds
WorldUpdate ==
    /\ Commit(updateWaypointVisibility(State, 0))
    /\ lastOp' = "worldUpdate"
    /\ UNCHANGED gps

WorldNext ==
    \/ GeoUpdate
    \/ \E p \in AllPlaces : PlaceUpdate(p)
    \/ Tick
    \/ \E p \in AllPlaces : CallNavigateToPlace(p)
    \/ \E p \in AllPlaces : CallAddPlace(p)
    \/ WorldUpdate

WorldSpec == WorldInit /\ [][WorldNext]_vars

(* C27: marker animations do not replay: no tween chain is triggered on a   *)
(* marker when the chain triggered on that marker before it was the same    *)
(* chain, whatever onArrivedAtPlace, onNavigationStarted and frame updates  *)
(* occur.                                                                   *)
C27_NoChainTwiceInARow ==
    \A k \in 1..Len(tweenLog) : tweenLog[k][2] # tweenLog[k][3]

---------------------------------------------------------------------------
(* Bearings: the user's position is read, calculateBearing gives some       *)
(* whole number of degrees for it, and the bearing to a waypoint is asked   *)
(* for.                                                                     *)

MaxTurns == 2

\* what calculateBearing may give: an atan2 in degrees lies in -180..180; the range
\* is taken wider, MaxTurns whole turns either way in steps of 45 degrees, with the
\* neighbours of 0 and of a whole turn
RawBearings ==
    {k * 45 : k \in (0 - 8 * MaxTurns)..(8 * MaxTurns)} \cup {-361, -359, -1, 1, 359, 361}

BearingInit ==
    /\ places = <<>>
    /\ visited = [p \in AllPlaces |-> FALSE]
    /\ status = Initializing
    /\ selectedPlace = Undefined
    /\ placesVisited = <<>>
    /\ placesAt = <<>>
    /\ emittedAllVisited = FALSE
    /\ hasArrivedAtSelectedPlace = FALSE
    /\ gps = NoFix
    /\ emitted = <<>>
    /\ lastOp = "init"
    /\ everConfirmed = {}
    /\ allVisitedCount = "never"
    /\ SceneInit
    /\ arrowSubscribed = FALSE
    /\ worldSubscribed = FALSE
    /\ geoLocalizationAvailable \in BOOLEAN
    /\ locationBearing \in RawBearings
    /\ bearing = NoBearing

\* a position reading: the localization status and the direction of the waypoint
BearingGeoUpdate ==
    /\ \E a \in BOOLEAN, raw \in RawBearings :
           Commit([State EXCEPT !.geoLocalizationAvailable = a, !.locationBearing = raw])
    /\ lastOp' = "geoUpdate"
    /\ UNCHANGED gps

\* a call of GeoLocationPlace.getBearing(userPosition)
CallGetBearing ==
    /\ Commit([State EXCEPT
                  !.bearing = getBearing(geoLocalizationAvailable, locationBearing)])
    /\ lastOp' = "getBearing"
    /\ UNCHANGED gps

BearingNext ==
    \/ BearingGeoUpdate
    \/ CallGetBearing

BearingSpec == BearingInit /\ [][BearingNext]_vars

(* C28: the bearing from the user to a waypoint, when it is not null, is at *)
(* least 0 and less than 360 degrees; it is null exactly when the user's    *)
(* position is not available.                                               *)
C28_BearingInRange ==
    [][CallGetBearing =>
          /\ (bearing' = NoBearing) <=> ~geoLocalizationAvailable
          /\ bearing' # NoBearing =>
                 /\ bearing'[1] >= 0
                 /\ bearing'[1] < 360
                 /\ (bearing'[1] - locationBearing) % 360 = 0]_vars

\* getBearing has returned a bearing for a direction calculateBearing gave as a
\* negative angle
C28_Witness ==
    /\ lastOp = "getBearing"
    /\ locationBearing < 0
    /\ bearing # NoBearing
    /\ bearing[1] = locationBearing + 360

---------------------------------------------------------------------------
(* C29: visited prefix: when a tick of the controller has completed, every  *)
(* visited waypoint of the ordered list that is not the first has a visited *)
(* immediate predecessor, whatever GPS moves, ticks, selections,            *)
(* registrations and removals came before.                                  *)
C29_VisitedPrefixAfterTick ==
    lastOp = "update" =>
        \A i \in 2..Len(places) : visited[places[i]] => visited[places[i - 1]]

\* a tick over a full list has completed in which the sweep forced the flag of an
\* out-of-order waypoint back
C29_Witness ==
    /\ lastOp = "update"
    /\ Len(places) = NumPlaces
    /\ CountEvent(emitted, VisitedReverted) > 0

---------------------------------------------------------------------------
(* C30: onArrivedAtPlace(w) is emitted only when w is visited and w is      *)
(* first in order or its immediate predecessor is visited, at the moment of *)
(* the emission; and it is never emitted for a waypoint whose visited flag  *)
(* the out-of-order correction reverts in the same tick.  (The order is    *)
(* that of the list: a waypoint that is not in it has no predecessor.)      *)
C30_ArrivalOnlyInOrder ==
    /\ \A k \in 1..Len(arrivedLog) :
           LET e == arrivedLog[k]
               idx == indexOf(e.places, e.place)
           IN  /\ e.visited[e.place]
               /\ idx > 0 => e.visited[at(e.places, idx - 1)]
    /\ lastOp = "update" =>
           \A p \in AllPlaces :
               ~(CountOf(emitted, ArrivedAtPlace, p) > 0 /\ CountOf(emitted, VisitedReverted, p) > 0)

---------------------------------------------------------------------------
(* C31: in every reachable state the active waypoint is null or unset, or   *)
(* it is a member of the ordered list, also after removePlace has been      *)
(* called on the active waypoint.                                           *)
C31_ActiveIsRegistered ==
    isNull(selectedPlace) \/ includes(places, selectedPlace)

---------------------------------------------------------------------------
(* C32: whenever onAllPlacesVisited is emitted, the ordered list is not     *)
(* empty and the visited flag of every waypoint in it is true at that       *)
(* moment.                                                                  *)
C32_AllVisitedWhenAnnounced ==
    \A k \in 1..Len(allVisitedLog) :
        LET e == allVisitedLog[k]
        IN  /\ Len(e.places) > 0
            /\ \A i \in 1..Len(e.places) : e.visited[e.places[i]]

\* onAllPlacesVisited has been emitted over a full list
C32_Witness ==
    /\ Len(allVisitedLog) > 0
    /\ Len(allVisitedLog[1].places) = NumPlaces
    /\ InLog(emitted, AllPlacesVisited, Null, 374)

---------------------------------------------------------------------------
(* C33: when a tick of the controller has completed, the active waypoint is *)
(* null (or still unset) or a waypoint whose visited flag is false.         *)
C33_ActiveUnvisitedAfterTick ==
    lastOp = "update" => (isNull(selectedPlace) \/ ~visited[selectedPlace])

\* a tick has advanced from a visited active waypoint to the next one, which is
\* active and unvisited when the tick completes
C33_Witness ==
    /\ lastOp = "update"
    /\ selectedPlace \in AllPlaces
    /\ InLog(emitted, NavigationStarted, selectedPlace, 255)
    /\ \E p \in AllPlaces : visited[p]

---------------------------------------------------------------------------
(* C34: when a tick advances the active waypoint from A to B, every         *)
(* onArrivedAtPlace(A) of that tick is emitted before onNavigationStarted(B)*)
(* and onNavigationStarted is emitted exactly once in that tick, with B.    *)
C34_ArrivedBeforeStarted ==
    [][(/\ Tick
        /\ selectedPlace \in AllPlaces
        /\ selectedPlace' \in AllPlaces
        /\ selectedPlace' # selectedPlace) =>
          /\ CountEvent(emitted', NavigationStarted) = 1
          /\ CountOf(emitted', NavigationStarted, selectedPlace') = 1
          /\ \A i, j \in 1..Len(emitted') :
                 (/\ emitted'[i][1] = ArrivedAtPlace
                  /\ emitted'[i][2] = selectedPlace
                  /\ emitted'[j][1] = NavigationStarted) => i < j]_vars

\* a tick has advanced to the active waypoint after announcing the arrival at the
\* one before it three times: from the arrival check, the advance and the sweep
C34_Witness ==
    /\ lastOp = "update"
    /\ selectedPlace \in AllPlaces
    /\ InLog(emitted, NavigationStarted, selectedPlace, 255)
    /\ \E a \in AllPlaces :
           /\ a # selectedPlace
           /\ InLog(emitted, ArrivedAtPlace, a, 315)
           /\ InLog(emitted, ArrivedAtPlace, a, 320)
           /\ InLog(emitted, ArrivedAtPlace, a, 352)

---------------------------------------------------------------------------
(* C35: registering a new waypoint with addPlace re-arms the completion     *)
(* latch, also after onAllPlacesVisited has been emitted, and removePlace   *)
(* never re-arms it; with the latch re-armed, the tick that finds every     *)
(* registered waypoint, the new one included, confirmed visited emits       *)
(* onAllPlacesVisited once more, exactly once, and sets the latch again.    *)
C35_AddRearmsLatch ==
    [][/\ \A p \in AllPlaces :
              (CallAddPlace(p) /\ ~includes(places, p)) => ~emittedAllVisited'
       /\ \A p \in AllPlaces :
              CallRemovePlace(p) => emittedAllVisited' = emittedAllVisited
       /\ (/\ Tick
           /\ ~emittedAllVisited
           /\ Len(places') > 0
           /\ \A p \in DOMAIN placesVisited' : placesVisited'[p]) =>
              /\ CountEvent(emitted', AllPlacesVisited) = 1
              /\ emittedAllVisited'
       /\ (Tick /\ emittedAllVisited) => CountEvent(emitted', AllPlacesVisited) = 0]_vars

\* onAllPlacesVisited has been emitted a second time, over a list that grew after
\* the first time
C35_Witness ==
    /\ lastOp = "update"
    /\ allVisitedCount = "again"
    /\ InLog(emitted, AllPlacesVisited, Null, 374)
    /\ Len(places) = NumPlaces

---------------------------------------------------------------------------
(* C36: after every tick that ends with an active waypoint of the list      *)
(* which onNavigationStarted announced to the subscribed arrow (during the  *)
(* tick, or earlier with the arrow still on it when the tick begins), the   *)
(* arrow's target equals the controller's active waypoint, whatever         *)
(* onArrivedAtPlace events were delivered during the tick.                  *)
C36_ArrowAgreesWithController ==
    [][(/\ Tick
        /\ arrowSubscribed
        /\ selectedPlace' \in AllPlaces
        /\ \/ InLog(emitted', NavigationStarted, selectedPlace', 255)
           \/ /\ selectedPlace' = selectedPlace
              /\ arrowSelectedPlace = selectedPlace) =>
            arrowSelectedPlace' = selectedPlace']_vars

---------------------------------------------------------------------------
\* One frame of the shared update dispatcher: every Place's own UpdateEvent
\* callback (each touches only its own _visited flag) and the controller's
\* UpdateEvent callback, in either order.

\* the UpdateEvent callbacks the Place constructors bind, all of them
placeCallbacks(s, g) ==
    [s EXCEPT !.visited = [p \in DOMAIN @ |-> @[p] \/ checkVisited(g, p)]]

\* a frame in which the places' callbacks run before the controller's update()
framePlacesFirst(s, g) == update(placeCallbacks(s, g), g)

\* a frame in which the controller's update() runs before the places' callbacks
frameControllerFirst(s, g) == placeCallbacks(update(s, g), g)

\* the events of a log, as subscribers see them: name and argument
eventsOf(log) ==
    LET real == SelectSeq(log, LAMBDA e : e[1] \notin {VisitedReverted, ErrorThrown})
    IN  [k \in 1..Len(real) |-> <<real[k][1], real[k][2]>>]

(* C37: from every reachable state, a frame in which the waypoints' own     *)
(* per-frame callbacks run before the controller's update and a frame in    *)
(* which they run after it end with the same visited flags, the same active *)
(* waypoint and the same status, and emit the same events.                  *)
C37_FrameOrderIndependent ==
    LET a == framePlacesFirst(State, gps)
        b == frameControllerFirst(State, gps)
    IN  /\ a.visited = b.visited
        /\ a.selectedPlace = b.selectedPlace
        /\ a.status = b.status
        /\ eventsOf(a.emitted) = eventsOf(b.emitted)

---------------------------------------------------------------------------
(* C38: while the active waypoint is null or unset (before any selection,   *)
(* after stopNavigation, after Succeeded), a tick changes neither the       *)
(* active waypoint nor the status and emits no onNavigationStarted.         *)
C38_IdleTickKeepsSelectionAndStatus ==
    [][(Tick /\ isNull(selectedPlace)) =>
          /\ selectedPlace' = selectedPlace
          /\ status' = status
          /\ CountEvent(emitted', NavigationStarted) = 0]_vars

\* a tick with nothing selected that still did something: its sweep confirmed a
\* waypoint while an unvisited one was left to select
C38_Witness ==
    /\ lastOp = "update"
    /\ isNull(selectedPlace)
    /\ InLog(emitted, ArrivedAtPlace, at(places, 0), 352)
    /\ \A k \in 1..Len(emitted) : emitted[k][3] \notin {315, 320}
    /\ \E p \in AllPlaces : includes(places, p) /\ ~visited[p]

---------------------------------------------------------------------------
(* C39: in every reachable state the ordered list holds no waypoint twice,  *)
(* the keys of placesVisited and the keys of placesAt are both exactly the  *)
(* listed waypoints, and placesAt(p) = true implies placesVisited(p) = true.*)
C39_BookkeepingConsistent ==
    /\ \A i, j \in 1..Len(places) : places[i] = places[j] => i = j
    /\ DOMAIN placesVisited = Registered
    /\ DOMAIN placesAt = Registered
    /\ \A p \in DOMAIN placesAt : placesAt[p] => placesVisited[p]

\* a waypoint was removed after the sweep had recorded it, and a recorded one is
\* still listed
C39_Witness ==
    /\ lastOp = "removePlace"
    /\ InLog(emitted, PlacesUpdated, Null, 294)
    /\ \E p \in Registered : placesAt[p] /\ placesVisited[p]
    /\ \E p \in AllPlaces : p \notin Registered /\ visited[p]

====
